---- MODULE Spec2Model ----
(***************************************************************************)
(* A model of sbox.Run (src/sbox/sbox.go): the import of the three stdio   *)
(* descriptors (createFDMap), the assembly of the root inode               *)
(* (createRootMount, addSubmountOverlay), the construction of the mount    *)
(* namespace (createMountNamespace) and the start sequence of Run.         *)
(*                                                                         *)
(* Strings are sequences of one-character strings.  An inode tree is the   *)
(* sequence of its layers, uppermost first; the nil *fs.Inode is the empty *)
(* sequence.  A file object is named by the slot it was imported for,      *)
(* plus one (object identities are arbitrary names).                       *)
(***************************************************************************)
EXTENDS Integers, Sequences, FiniteSets, TLC

\* ------------------------------------------------------------- bounds
\* Longest o.Mounts string explored by Run.
MaxLen == 5
\* Longest mount list handed to createRootMount directly.
MaxMounts == 3
\* How many symlinks beyond the budget a /proc resolution may need.
MaxOver == 1
\* How many writes the sandboxed process performs.
MaxWrites == 2

\* ---------------------------------------------------------- constants
\* linux.MaxSymlinkTraversals
MaxSymlinkTraversals == 40

\* []int{0, 1, 2}: the host descriptors Run hands to createFDMap.
stdioFDs == <<0, 1, 2>>

\* The sandbox descriptor slots, the keys of fdMap.
Slots == {0, 1, 2}

\* File objects: object s+1 is the one imported while iterating slot s.
Objs == {1, 2, 3}
NoObj == 0

\* The process group of the init process, tg.ProcessGroup().
InitPG == 1
NoPG == 0

\* The nil *fs.Inode.
Nil == << >>

Chars == {"a", "b", ","}

\* os.Getwd()
wd == <<"/", "w">>

\* submounts := []string{"/dev", "/sys", "/proc", "/tmp"}
submounts == <<"/dev", "/sys", "/proc", "/tmp">>

reservedDirs == {submounts[n] : n \in 1..Len(submounts)}

Paths == {"x", "y"} \cup reservedDirs

\* ------------------------------------------------------------ strings
\* strings.Split(s, ","): the pieces of s between commas; Split("") = [""].
RECURSIVE SplitFrom(_, _, _)
SplitFrom(s, n, cur) ==
  IF n > Len(s) THEN << cur >>
  ELSE IF s[n] = "," THEN << cur >> \o SplitFrom(s, n + 1, << >>)
  ELSE SplitFrom(s, n + 1, Append(cur, s[n]))

Split(s) == SplitFrom(s, 1, << >>)

\* filepath.IsAbs(m)
IsAbs(m) == Len(m) > 0 /\ m[1] = "/"

\* filepath.Join(wd, m): empty elements are dropped.
Join(d, m) == IF m = << >> THEN d ELSE d \o <<"/">> \o m

\* The root a mount string names (lines 254-256).
ResolveMount(m) == IF IsAbs(m) THEN m ELSE Join(wd, m)

\* ------------------------------------------------------- host content
\* The host directories that exist: the working directory and two below it.
HostDirs == {wd, Join(wd, <<"a">>), Join(wd, <<"b">>)}

\* What each host directory holds before the sandbox runs.
HostInit ==
  [d \in HostDirs |->
     [p \in Paths |->
        IF d = wd THEN (IF p = "x" THEN "wd:x" ELSE "none")
        ELSE IF d = Join(wd, <<"a">>)
             THEN (IF p = "x" THEN "a:x"
                   ELSE IF p = "y" THEN "a:y"
                   ELSE IF p = "/tmp" THEN "dir" ELSE "none")
             ELSE (IF p = "x" THEN "b:x"
                   ELSE IF p = "/proc" THEN "dir" ELSE "none")]]

\* ramfs.MakeDirectoryTree(ctx, msrc, submounts): exactly the listed
\* directories, empty.
MakeDirectoryTree(dirs) ==
  [p \in Paths |-> IF \E n \in 1..Len(dirs) : dirs[n] = p THEN "dir" ELSE "none"]

EmptyTree == [p \in Paths |-> "none"]

HostLayer(d) == [kind |-> "host", dir |-> d]
RamfsLayer == [kind |-> "ramfs", dir |-> << >>]
TmpfsLayer == [kind |-> "tmpfs", dir |-> << >>]

VARIABLES
  pc,        \* where Run (or the function under study) stands
  TTY,       \* o.TTY
  Mounts,    \* o.Mounts
  err,       \* the error being returned, "" for none
  failures,  \* the construction steps that have failed so far
  fdmRef, fdmDestroyed,  \* the FDMap's reference count, times torn down
  files,     \* file object -> [ref, destroyed, host, tty, fgpg]
  table,     \* slot -> file object
  todo,      \* the keys of fdMap the range loop has not yet visited
  ttyFile,   \* createFDMap's ttyFile
  deferred,  \* createFDMap's deferred DecRef calls, last registered first
             \* (NoObj stands for the FDMap's own)
  imports,   \* host descriptor -> times handed to host.ImportFile
  mounts, i, rootInode, prevInode,   \* createRootMount's locals
  hostFS, ramfsData, tmpfsData,      \* the content of every backing tree
  kMounts,   \* k.mounts: "none", "pre" (set before Run looked) or "built"
  nsRoot, procMounted, nsSets,       \* the namespace under construction
  followLinks, links,                \* the symlink budget, links needed
  created, started, fgInits, writes, ttyHeld

fdVars == <<fdmRef, fdmDestroyed, files, table, todo, ttyFile, deferred, imports>>
crmVars == <<mounts, i, rootInode, prevInode>>
dataVars == <<hostFS, ramfsData, tmpfsData>>
nsVars == <<kMounts, nsRoot, procMounted, nsSets, followLinks, links>>
runVars == <<created, started, fgInits, writes, ttyHeld>>
optVars == <<TTY, Mounts>>

vars == <<pc, err, failures, optVars, fdVars, crmVars, dataVars, nsVars, runVars>>

\* ------------------------------------------------------------- strings
RECURSIVE StringsUpTo(_)
StringsUpTo(n) ==
  IF n = 0 THEN {<< >>}
  ELSE LET shorter == StringsUpTo(n - 1)
       IN shorter \cup {Append(s, c) : s \in shorter, c \in Chars}

RECURSIVE ListsUpTo(_, _)
ListsUpTo(S, n) ==
  IF n = 0 THEN {<< >>}
  ELSE LET shorter == ListsUpTo(S, n - 1)
       IN shorter \cup {Append(l, e) : l \in shorter, e \in S}

NoFile == [ref |-> 0, destroyed |-> 0, host |-> -1, tty |-> FALSE, fgpg |-> NoPG]

InitCommon ==
  /\ err = ""
  /\ failures = {}
  /\ fdmRef = 0 /\ fdmDestroyed = 0
  /\ files = [o \in Objs |-> NoFile]
  /\ table = [s \in Slots |-> NoObj]
  /\ todo = {}
  /\ ttyFile = NoObj
  /\ deferred = << >>
  /\ imports = [h \in Slots |-> 0]
  /\ i = 0 /\ rootInode = Nil /\ prevInode = Nil
  /\ hostFS = HostInit
  /\ ramfsData = EmptyTree
  /\ tmpfsData = EmptyTree
  /\ nsRoot = Nil /\ procMounted = FALSE /\ nsSets = 0
  /\ followLinks = 0 /\ links = 0
  /\ created = FALSE /\ started = FALSE /\ fgInits = 0 /\ writes = 0
  /\ ttyHeld = FALSE

\* Run is entered with any options; the kernel it built may or may not
\* report a root mount namespace when asked at line 150.
Init ==
  /\ InitCommon
  /\ pc = "createFDMap"
  /\ TTY \in BOOLEAN
  /\ Mounts \in StringsUpTo(MaxLen)
  /\ mounts = << >>
  /\ kMounts \in {"none", "pre"}

\* ------------------------------------------------------ reference counts
\* file.DecRef(): the release that reaches zero tears the object down.
DecRef(fs, o) ==
  [fs EXCEPT ![o].ref = @ - 1,
             ![o].destroyed = IF fs[o].ref = 1 THEN @ + 1 ELSE @]

\* file.IncRef()
IncRef(fs, o) == [fs EXCEPT ![o].ref = @ + 1]

\* FDMap destruction: every populated slot drops its reference.
RECURSIVE DropSlots(_, _, _)
DropSlots(fs, tbl, ss) ==
  IF ss = {} THEN fs
  ELSE LET s == CHOOSE x \in ss : TRUE
           next == IF tbl[s] = NoObj THEN fs ELSE DecRef(fs, tbl[s])
       IN DropSlots(next, tbl, ss \ {s})

\* host.ImportFile(ctx, hostFD, mounter, isTTY): a new file object holding
\* one reference.
ImportFile(fs, o, hostFD, isTTY) ==
  [fs EXCEPT ![o] = [ref |-> 1, destroyed |-> 0, host |-> hostFD,
                     tty |-> isTTY, fgpg |-> NoPG]]

\* A mutation: every slot imports its own file.
ReuseTTY_Never(console, appFD, tf) == FALSE

\* Lines 316-333: with a TTY file already imported, the slot re-uses it.
ReuseTTY(console, appFD, tf) == console /\ appFD < 3 /\ tf # NoObj

\* Line 345: fdm.NewFDAt installs the file and takes a reference on it.
NewFDAt(fs, o) == IncRef(fs, o)

\* A mutation: the caller's reference is not taken.
ReturnRef_Missing(r) == r

\* Line 350: fdm.IncRef() before the successful return.
ReturnRef(r) == r + 1

\* ------------------------------------------------------------ createFDMap
\* Lines 295-308.
createFDMap_Begin ==
  /\ pc = "createFDMap"
  /\ IF Len(stdioFDs) # 3
     THEN /\ pc' = "failed"
          /\ err' = "stdioFDs"
          /\ failures' = failures \cup {"import"}
          /\ UNCHANGED fdVars
     ELSE /\ pc' = "fdLoop"
          /\ fdmRef' = 1
          /\ deferred' = << NoObj >>
          /\ todo' = Slots
          /\ UNCHANGED <<err, failures, fdmDestroyed, files, table, ttyFile, imports>>
  /\ UNCHANGED <<optVars, crmVars, dataVars, nsVars, runVars>>

\* Lines 311-348: one iteration of the range over fdMap, which visits the
\* keys in any order.
createFDMap_Loop(appFD, importOK, addOK) ==
  /\ pc = "fdLoop"
  /\ appFD \in todo
  /\ LET hostFD == stdioFDs[appFD + 1]
         reuse == ReuseTTY(TTY, appFD, ttyFile)
         isTTY == TTY /\ appFD < 3
         obj == IF reuse THEN ttyFile ELSE appFD + 1
         imported == IF reuse THEN files ELSE ImportFile(files, obj, hostFD, isTTY)
     IN IF ~reuse /\ ~importOK
        THEN \* host.ImportFile failed: return nil, err
             /\ pc' = "fdDefers"
             /\ err' = "import"
             /\ failures' = failures \cup {"import"}
             /\ imports' = [imports EXCEPT ![hostFD] = @ + 1]
             /\ UNCHANGED <<files, table, todo, ttyFile, deferred>>
        ELSE /\ imports' = IF reuse THEN imports
                           ELSE [imports EXCEPT ![hostFD] = @ + 1]
             /\ deferred' = IF reuse THEN deferred ELSE << obj >> \o deferred
             /\ ttyFile' = IF isTTY THEN obj ELSE ttyFile
             /\ IF ~addOK
                THEN \* fdm.NewFDAt failed: return nil, err
                     /\ pc' = "fdDefers"
                     /\ err' = "import"
                     /\ failures' = failures \cup {"import"}
                     /\ files' = imported
                     /\ UNCHANGED <<table, todo>>
                ELSE /\ files' = NewFDAt(imported, obj)
                     /\ table' = [table EXCEPT ![appFD] = obj]
                     /\ todo' = todo \ {appFD}
                     /\ pc' = IF todo' = {} THEN "fdReturn" ELSE "fdLoop"
                     /\ UNCHANGED <<err, failures>>
  /\ UNCHANGED <<fdmRef, fdmDestroyed, optVars, crmVars, dataVars, nsVars, runVars>>

\* Lines 350-351: the successful return.
createFDMap_Return ==
  /\ pc = "fdReturn"
  /\ fdmRef' = ReturnRef(fdmRef)
  /\ pc' = "fdDefers"
  /\ UNCHANGED <<err, failures, fdmDestroyed, files, table, todo, ttyFile,
                 deferred, imports, optVars, crmVars, dataVars, nsVars, runVars>>

\* Lines 300, 322, 341: the deferred calls run last-registered first.  The
\* FDMap's last reference tears it down, releasing every slot.
createFDMap_Defer ==
  /\ pc = "fdDefers"
  /\ deferred # << >>
  /\ LET d == Head(deferred)
     IN IF d = NoObj
        THEN /\ fdmRef' = fdmRef - 1
             /\ IF fdmRef = 1
                THEN /\ fdmDestroyed' = fdmDestroyed + 1
                     /\ files' = DropSlots(files, table, Slots)
                     /\ table' = [s \in Slots |-> NoObj]
                ELSE UNCHANGED <<fdmDestroyed, files, table>>
        ELSE /\ files' = DecRef(files, d)
             /\ UNCHANGED <<fdmRef, fdmDestroyed, table>>
  /\ deferred' = Tail(deferred)
  /\ UNCHANGED <<pc, err, failures, todo, ttyFile, imports,
                 optVars, crmVars, dataVars, nsVars, runVars>>

\* Lines 134-140: createFDMap has returned to Run.
Run_FDMap ==
  /\ pc = "fdDefers"
  /\ deferred = << >>
  /\ pc' = IF err = "" THEN "fdReturned" ELSE "failed"
  /\ UNCHANGED <<err, failures, optVars, fdVars, crmVars, dataVars, nsVars, runVars>>

\* ----------------------------------------------------------- inode trees
\* The content a layer holds.
LayerData(l) ==
  IF l.kind = "host" THEN hostFS[l.dir]
  ELSE IF l.kind = "ramfs" THEN ramfsData
  ELSE tmpfsData

\* What a path resolves to in a tree: the uppermost layer that has it.
RECURSIVE Lookup(_, _)
Lookup(tree, p) ==
  IF tree = << >> THEN "none"
  ELSE IF LayerData(Head(tree))[p] # "none" THEN LayerData(Head(tree))[p]
  ELSE Lookup(Tail(tree), p)

\* fs.NewOverlayRoot(ctx, upper, lower, flags): upper shadows lower.
NewOverlayRoot(upper, lower) == upper \o lower

\* A mutation: the fold's arguments exchanged.
FoldOverlay_Swapped(new, prev) == NewOverlayRoot(prev, new)

\* Line 263: the new mount is the upper layer, the accumulator the lower.
FoldOverlay(new, prev) == NewOverlayRoot(new, prev)

\* Line 192: the accumulator is the upper layer, the mount tree the lower.
SubmountOverlay(inode, mountTree) == NewOverlayRoot(inode, mountTree)

\* A mutation: the tmpfs put under the assembled tree.
UpperOverlay_Swapped(upper, inode) == NewOverlayRoot(inode, upper)

\* Line 286: the tmpfs is the upper layer.
UpperOverlay(upper, inode) == NewOverlayRoot(upper, inode)

\* A mutation: the namespace is built whatever the kernel holds.
NeedNamespace_Always(k) == TRUE

\* Line 151: the namespace is built only when the kernel has none.
NeedNamespace(k) == k = "none"

\* A mutation: a budget one short.
InitialFollowLinks_Short == MaxSymlinkTraversals - 1

\* Line 152: followLinks := uint(linux.MaxSymlinkTraversals)
InitialFollowLinks == MaxSymlinkTraversals

Fail(kind, e) ==
  /\ pc' = "failed"
  /\ err' = e
  /\ failures' = failures \cup {kind}

\* ---------------------------------------------------------------- Run
\* Lines 150-153.
Run_RootMountNamespace ==
  /\ pc = "fdReturned"
  /\ IF NeedNamespace(kMounts)
     THEN /\ followLinks' = InitialFollowLinks
          /\ mounts' = Split(Mounts)
          /\ pc' = "crmBegin"
     ELSE /\ pc' = "createProcess"
          /\ UNCHANGED <<followLinks, mounts>>
  /\ UNCHANGED <<err, failures, optVars, fdVars, i, rootInode, prevInode, dataVars,
                 kMounts, nsRoot, procMounted, nsSets, links, runVars>>

\* ------------------------------------------------------ createRootMount
\* Lines 237-252.
createRootMount_Begin(wdOK) ==
  /\ pc = "crmBegin"
  /\ IF wdOK
     THEN /\ pc' = "crmLoop"
          /\ UNCHANGED <<err, failures>>
     ELSE Fail("getwd", "getwd")
  /\ i' = 0 /\ rootInode' = Nil /\ prevInode' = Nil
  /\ UNCHANGED <<optVars, fdVars, mounts, dataVars, nsVars, runVars>>

\* Lines 253-269: one iteration of the loop over mounts.
createRootMount_Loop(mountOK, ovOK) ==
  /\ pc = "crmLoop"
  /\ i < Len(mounts)
  /\ LET m == ResolveMount(mounts[i + 1])
         new == << HostLayer(m) >>
     IN IF ~(mountOK /\ m \in HostDirs)
        THEN /\ Fail("hostMount", "failed to generate root mount point")
             /\ UNCHANGED <<i, rootInode, prevInode>>
        ELSE IF i # 0 /\ ~ovOK
        THEN /\ Fail("overlay", "failed to make mount overlay")
             /\ rootInode' = new
             /\ UNCHANGED <<i, prevInode>>
        ELSE /\ rootInode' = IF i # 0 THEN FoldOverlay(new, prevInode) ELSE new
             /\ prevInode' = rootInode'
             /\ i' = i + 1
             /\ UNCHANGED <<pc, err, failures>>
  /\ UNCHANGED <<optVars, fdVars, mounts, dataVars, nsVars, runVars>>

\* Lines 271-275 and 184-197: the reserved directories go under the
\* accumulator.  With no mount the accumulator is the nil inode, which
\* fs.NewOverlayRoot dereferences.
addSubmountOverlay(treeOK, ovOK) ==
  /\ pc = "crmLoop"
  /\ i = Len(mounts)
  /\ IF ~treeOK
     THEN /\ Fail("synthetic", "error creating mount tree")
          /\ UNCHANGED <<rootInode, ramfsData>>
     ELSE /\ ramfsData' = MakeDirectoryTree(submounts)
          /\ IF rootInode = Nil
             THEN /\ pc' = "panic"
                  /\ UNCHANGED <<err, failures, rootInode>>
             ELSE IF ~ovOK
             THEN /\ Fail("synthetic", "failed to make mount overlay")
                  /\ UNCHANGED rootInode
             ELSE /\ rootInode' = SubmountOverlay(rootInode, << RamfsLayer >>)
                  /\ pc' = "crmUpper"
                  /\ UNCHANGED <<err, failures>>
  /\ UNCHANGED <<optVars, fdVars, mounts, i, prevInode, hostFS, tmpfsData,
                 nsVars, runVars>>

\* Lines 277-291: the writable tmpfs goes over everything.
createRootMount_Upper(mountOK, ovOK) ==
  /\ pc = "crmUpper"
  /\ IF ~mountOK
     THEN /\ Fail("tmpfs", "failed to create tmpfs overlay")
          /\ UNCHANGED <<rootInode, tmpfsData>>
     ELSE IF ~ovOK
     THEN /\ Fail("tmpfs", "failed to make mount overlay")
          /\ tmpfsData' = EmptyTree
          /\ UNCHANGED rootInode
     ELSE /\ tmpfsData' = EmptyTree
          /\ rootInode' = UpperOverlay(<< TmpfsLayer >>, rootInode)
          /\ pc' = "crmRet"
          /\ UNCHANGED <<err, failures>>
  /\ UNCHANGED <<optVars, fdVars, mounts, i, prevInode, hostFS, ramfsData,
                 nsVars, runVars>>

\* -------------------------------------------------- createMountNamespace
\* mns.FindInode(ctx, root, root, "/proc", maxTraversals) on a path that
\* needs n symlink traversals: each symlink met takes one unit of the
\* budget, and a symlink met with the budget at zero fails the lookup.
RECURSIVE FindInode(_, _)
FindInode(n, budget) ==
  IF n = 0 THEN [ok |-> TRUE, left |-> budget]
  ELSE IF budget = 0 THEN [ok |-> FALSE, left |-> 0]
  ELSE FindInode(n - 1, budget - 1)

\* Lines 228-230: the process-info filesystem is attached only when
\* mns.Mount succeeds.
MountResult(ok) == ok

\* A mutation: the error of mns.Mount is dropped and the namespace returned.
MountErrorReturn_Ignored == "cmnRet"

\* Lines 229 and 154-156: a failed mns.Mount makes createMountNamespace,
\* and with it Run, return the error.
MountErrorReturn == "failed"

\* Lines 200-221: the root mount has been built; create the namespace and
\* the proc filesystem.
createMountNamespace_New(nsOK, procOK) ==
  /\ pc = "crmRet"
  /\ IF ~nsOK
     THEN /\ Fail("namespace", "failed to create root mount namespace")
          /\ UNCHANGED nsRoot
     ELSE /\ nsRoot' = rootInode
          /\ IF ~procOK
             THEN Fail("procfs", "failed to create mount with source")
             ELSE /\ pc' = "cmnFind"
                  /\ UNCHANGED <<err, failures>>
  /\ UNCHANGED <<optVars, fdVars, crmVars, dataVars, kMounts, procMounted,
                 nsSets, followLinks, links, runVars>>

\* Lines 223-227: resolve /proc under the caller's symlink budget.
createMountNamespace_FindInode(n) ==
  /\ pc = "cmnFind"
  /\ LET r == FindInode(n, followLinks)
     IN /\ links' = n
        /\ followLinks' = r.left
        /\ IF r.ok
           THEN /\ pc' = "cmnMount"
                /\ UNCHANGED <<err, failures>>
           ELSE Fail("resolve", "ELOOP")
  /\ UNCHANGED <<optVars, fdVars, crmVars, dataVars, kMounts, nsRoot,
                 procMounted, nsSets, runVars>>

\* Lines 228-232.
createMountNamespace_Mount(ok) ==
  /\ pc = "cmnMount"
  /\ IF MountResult(ok)
     THEN /\ procMounted' = TRUE
          /\ pc' = "cmnRet"
          /\ UNCHANGED <<err, failures>>
     ELSE /\ pc' = MountErrorReturn
          /\ err' = "failed to mount at destination"
          /\ failures' = failures \cup {"procMount"}
          /\ UNCHANGED procMounted
  /\ UNCHANGED <<optVars, fdVars, crmVars, dataVars, kMounts, nsRoot,
                 nsSets, followLinks, links, runVars>>

\* Lines 154-158: the namespace is installed; the block's locals go out of
\* scope.
Run_SetRootMountNamespace ==
  /\ pc = "cmnRet"
  /\ kMounts' = "built"
  /\ nsSets' = nsSets + 1
  /\ followLinks' = 0
  /\ links' = 0
  /\ pc' = "createProcess"
  /\ UNCHANGED <<err, failures, optVars, fdVars, crmVars, dataVars, nsRoot,
                 procMounted, runVars>>

\* A mutation: the terminal flag is not consulted.
WantsForeground_Always(tty) == TRUE

\* Line 165: the foreground group is set in terminal mode only.
WantsForeground(tty) == tty

\* Lines 159-162: CreateProcess takes a reference on the FDMap when it
\* succeeds.
Run_CreateProcess(ok) ==
  /\ pc = "createProcess"
  /\ IF ok
     THEN /\ created' = TRUE
          /\ fdmRef' = fdmRef + 1
          /\ pc' = "initFg"
          /\ UNCHANGED <<err, failures>>
     ELSE /\ Fail("createProcess", "failed to create init process")
          /\ UNCHANGED <<created, fdmRef>>
  /\ UNCHANGED <<optVars, fdmDestroyed, files, table, todo, ttyFile, deferred,
                 imports, crmVars, dataVars, nsVars, started, fgInits, writes, ttyHeld>>

\* Lines 164-173: GetFile(0) takes a reference that Run drops on return.
Run_InitForegroundProcessGroup ==
  /\ pc = "initFg"
  /\ IF WantsForeground(TTY)
     THEN /\ files' = [IncRef(files, table[0]) EXCEPT ![table[0]].fgpg = InitPG]
          /\ fgInits' = fgInits + 1
          /\ ttyHeld' = TRUE
     ELSE UNCHANGED <<files, fgInits, ttyHeld>>
  /\ pc' = "start"
  /\ UNCHANGED <<err, failures, optVars, fdmRef, fdmDestroyed, table, todo, ttyFile,
                 deferred, imports, crmVars, dataVars, nsVars, created, started, writes>>

\* Lines 175-177.
Run_Start(ok) ==
  /\ pc = "start"
  /\ IF ok
     THEN /\ started' = TRUE
          /\ pc' = "running"
          /\ UNCHANGED <<err, failures, files, ttyHeld>>
     ELSE /\ Fail("start", "start")
          /\ files' = IF ttyHeld THEN DecRef(files, table[0]) ELSE files
          /\ ttyHeld' = FALSE
          /\ UNCHANGED started
  /\ UNCHANGED <<optVars, fdmRef, fdmDestroyed, table, todo, ttyFile, deferred,
                 imports, crmVars, dataVars, nsVars, created, fgInits, writes>>

\* The sandboxed process writes c at path p through the root this Run
\* installed: an overlay's writes land in its upper tree.
SandboxWrite(p, c) ==
  /\ pc = "running"
  /\ kMounts = "built"
  /\ writes < MaxWrites
  /\ writes' = writes + 1
  /\ LET top == Head(nsRoot)
     IN /\ hostFS' = IF top.kind = "host"
                     THEN [hostFS EXCEPT ![top.dir][p] = c] ELSE hostFS
        /\ ramfsData' = IF top.kind = "ramfs"
                        THEN [ramfsData EXCEPT ![p] = c] ELSE ramfsData
        /\ tmpfsData' = IF top.kind = "tmpfs"
                        THEN [tmpfsData EXCEPT ![p] = c] ELSE tmpfsData
  /\ UNCHANGED <<pc, err, failures, optVars, fdVars, crmVars, nsVars,
                 created, started, fgInits, ttyHeld>>

\* Lines 179-181: the sandboxed process has exited; Run returns nil.
Run_WaitExited ==
  /\ pc = "running"
  /\ pc' = "exited"
  /\ files' = IF ttyHeld THEN DecRef(files, table[0]) ELSE files
  /\ ttyHeld' = FALSE
  /\ UNCHANGED <<err, failures, optVars, fdmRef, fdmDestroyed, table, todo, ttyFile,
                 deferred, imports, crmVars, dataVars, nsVars, created, started,
                 fgInits, writes>>

\* ------------------------------------------------------- specifications
NextRoot ==
  \/ \E wdOK \in BOOLEAN : createRootMount_Begin(wdOK)
  \/ \E mountOK, ovOK \in BOOLEAN : createRootMount_Loop(mountOK, ovOK)
  \/ \E treeOK, ovOK \in BOOLEAN : addSubmountOverlay(treeOK, ovOK)
  \/ \E mountOK, ovOK \in BOOLEAN : createRootMount_Upper(mountOK, ovOK)

Next ==
  \/ createFDMap_Begin
  \/ \E appFD \in Slots, importOK, addOK \in BOOLEAN :
       createFDMap_Loop(appFD, importOK, addOK)
  \/ createFDMap_Return
  \/ createFDMap_Defer
  \/ Run_FDMap
  \/ Run_RootMountNamespace
  \/ \E wdOK \in BOOLEAN : createRootMount_Begin(wdOK)
  \/ \E mountOK, ovOK \in BOOLEAN : createRootMount_Loop(mountOK, ovOK)
  \/ \E treeOK, ovOK \in BOOLEAN : addSubmountOverlay(treeOK, ovOK)
  \/ \E mountOK, ovOK \in BOOLEAN : createRootMount_Upper(mountOK, ovOK)
  \/ \E nsOK, procOK \in BOOLEAN : createMountNamespace_New(nsOK, procOK)
  \/ \E n \in 0..(MaxSymlinkTraversals + MaxOver) : createMountNamespace_FindInode(n)
  \/ \E ok \in BOOLEAN : createMountNamespace_Mount(ok)
  \/ Run_SetRootMountNamespace
  \/ \E ok \in BOOLEAN : Run_CreateProcess(ok)
  \/ Run_InitForegroundProcessGroup
  \/ \E ok \in BOOLEAN : Run_Start(ok)
  \/ \E p \in {"x", "y"} : SandboxWrite(p, "w")
  \/ Run_WaitExited

\* The whole of Run.
Spec == Init /\ [][Next]_vars

\* createRootMount called with any list of mount strings, the empty one
\* included.
MountNames == {<< >>, <<"a">>, <<"b">>}

InitRoot ==
  /\ InitCommon
  /\ pc = "crmBegin"
  /\ TTY = FALSE
  /\ Mounts = << >>
  /\ mounts \in ListsUpTo(MountNames, MaxMounts)
  /\ kMounts = "none"

SpecRoot == InitRoot /\ [][NextRoot]_vars

\* ------------------------------------------------------------- claims
Allocated(o) == files[o].host # -1

FDPhase == {"createFDMap", "fdLoop", "fdReturn", "fdDefers"}

\* createFDMap has returned its table to Run.
FDMapReturnedOK == pc \notin FDPhase /\ "import" \notin failures

\* The host directory the n-th mount of the list names.
MountDir(n) == ResolveMount(mounts[n])

\* C1: after createRootMount has assembled a non-empty mount list, every
\* path resolves to the content of the last-listed mount that holds it; in
\* particular a path held by both the first and the last mount resolves to
\* the last mount's content.
C1_LastListedWins ==
  (pc = "crmRet" /\ Len(mounts) >= 1) =>
    /\ \A p \in Paths :
         (HostInit[MountDir(1)][p] # "none" /\ HostInit[MountDir(Len(mounts))][p] # "none")
           => Lookup(rootInode, p) = HostInit[MountDir(Len(mounts))][p]
    /\ \A j \in 1..Len(mounts) : \A p \in Paths :
         (/\ HostInit[MountDir(j)][p] # "none"
          /\ \A l \in (j + 1)..Len(mounts) : HostInit[MountDir(l)][p] = "none")
           => Lookup(rootInode, p) = HostInit[MountDir(j)][p]

\* Two different directories that both hold x have been assembled, and x
\* reads as the last one's.
C1_Witness ==
  /\ pc = "crmRet"
  /\ Len(mounts) >= 2
  /\ MountDir(1) # MountDir(Len(mounts))
  /\ Lookup(rootInode, "x") = HostInit[MountDir(Len(mounts))]["x"]

C3_WritesOnlyInUpper ==
  /\ hostFS = HostInit
  /\ ramfsData \in {EmptyTree, MakeDirectoryTree(submounts)}
  /\ \A p \in Paths : (pc = "running" /\ tmpfsData[p] # "none")
                        => Lookup(nsRoot, p) = tmpfsData[p]

\* The sandboxed process has overwritten x, which every host mount holds.
C3_Witness ==
  /\ pc = "running"
  /\ writes >= 1
  /\ tmpfsData["x"] = "w"
  /\ Lookup(nsRoot, "x") = "w"

\* C4: once createFDMap has returned a table, its three slots hold one
\* file object exactly when the terminal flag is set and three different
\* ones otherwise, and the foreground group Run sets through slot 0 is the
\* one read through every slot.
C4_SharedIffTerminal ==
  FDMapReturnedOK =>
    /\ \A s \in Slots : table[s] # NoObj
    /\ TTY <=> (table[0] = table[1] /\ table[1] = table[2])
    /\ ~TTY => (table[0] # table[1] /\ table[1] # table[2] /\ table[0] # table[2])
    /\ fgInits >= 1 => \A s \in Slots : files[table[s]].fgpg = InitPG

\* The foreground group set through slot 0 is read through slots 1 and 2.
C4_Witness ==
  /\ TTY
  /\ fgInits = 1
  /\ files[table[1]].fgpg = InitPG
  /\ files[table[2]].fgpg = InitPG

\* C5: in terminal mode createFDMap hands exactly one host descriptor to
\* host.ImportFile, and it is stdioFDs[0], whatever the iteration order.
C5_ImportsSlotZero ==
  (FDMapReturnedOK /\ TTY) =>
    /\ imports[stdioFDs[1]] = 1
    /\ \A h \in Slots : h # stdioFDs[1] => imports[h] = 0

\* C6: the foreground process group is set at most once, only in terminal
\* mode, only once the init process exists, and to the init process's
\* group; when the kernel is started in terminal mode it has been set.
C6_ForegroundOnceBeforeStart ==
  /\ fgInits <= 1
  /\ ~TTY => fgInits = 0
  /\ ~created => fgInits = 0
  /\ fgInits = 1 => files[table[0]].fgpg = InitPG
  /\ (started /\ TTY) => fgInits = 1
  /\ fgInits = 0 => \A o \in Objs : files[o].fgpg = NoPG

\* The group is set and the kernel not yet started.
C6_Witness ==
  /\ TTY
  /\ pc = "start"
  /\ created /\ ~started
  /\ fgInits = 1

ConstructionFailures ==
  {"import", "getwd", "hostMount", "overlay", "synthetic", "tmpfs",
   "namespace", "procfs", "resolve", "procMount"}

\* The root this Run built holds every layer: the tmpfs, the mounts last
\* to first, the synthetic tree.
FullyBuilt ==
  /\ procMounted
  /\ Len(nsRoot) = Len(mounts) + 2
  /\ Head(nsRoot) = TmpfsLayer
  /\ nsRoot[Len(nsRoot)] = RamfsLayer

\* C7: once a construction step has failed the init process is never
\* created nor started and Run ends with an error; and the kernel is
\* started only with slots 0, 1, 2 populated and a root namespace
\* installed, which, when this Run built it, is complete with proc mounted.
C7_AllOrNothing ==
  /\ (failures \cap ConstructionFailures # {}) =>
       (~created /\ ~started /\ pc \in {"fdDefers", "failed"} /\ err # "")
  /\ (created \/ started) =>
       /\ \A s \in Slots : table[s] # NoObj /\ files[table[s]].ref > 0
       /\ kMounts # "none"
       /\ kMounts = "built" => FullyBuilt

\* Attaching proc failed and Run returned the error.
C7_Witness ==
  /\ pc = "failed"
  /\ "procMount" \in failures
  /\ ~created
  /\ kMounts = "none"

C9_SymlinkBudget ==
  (pc \in {"cmnMount", "cmnRet"} \/ failures \cap {"resolve", "procMount"} # {}) =>
    /\ links <= MaxSymlinkTraversals =>
         /\ "resolve" \notin failures
         /\ followLinks = MaxSymlinkTraversals - links
         /\ pc = "cmnRet" => procMounted
    /\ links > MaxSymlinkTraversals =>
         /\ pc = "failed" /\ err = "ELOOP" /\ "resolve" \in failures
         /\ ~procMounted /\ kMounts = "none" /\ ~created

\* A path needing exactly the budget was resolved and proc mounted.
C9_Witness ==
  /\ pc = "cmnRet"
  /\ links = MaxSymlinkTraversals
  /\ followLinks = 0
  /\ procMounted

\* The slots of the table that hold object o.
SlotsOf(o) == {s \in Slots : table[s] = o}

\* C10: no count is ever negative and nothing is torn down twice; when
\* createFDMap returns a table, the table holds one reference and every
\* file as many as slots name it (three for the terminal, one otherwise),
\* and releasing the slots tears each file down once; when it returns an
\* error, the table and every imported file are at zero, torn down once.
C10_RefCountsBalanced ==
  /\ fdmRef >= 0 /\ fdmDestroyed <= 1
  /\ \A o \in Objs : files[o].ref >= 0 /\ files[o].destroyed <= 1
  /\ (pc = "fdReturned") =>
       /\ fdmRef = 1 /\ fdmDestroyed = 0
       /\ \A o \in Objs : /\ files[o].ref = Cardinality(SlotsOf(o))
                          /\ files[o].destroyed = 0
       /\ TTY => files[ttyFile].ref = 3
       /\ ~TTY => \A s \in Slots : files[table[s]].ref = 1
       /\ LET after == DropSlots(files, table, Slots)
          IN \A o \in Objs : Allocated(o) =>
               (after[o].ref = 0 /\ after[o].destroyed = 1)
  /\ ("import" \in failures /\ deferred = << >>) =>
       /\ fdmRef = 0 /\ fdmDestroyed = 1
       /\ \A o \in Objs : /\ files[o].ref = 0
                          /\ Allocated(o) => files[o].destroyed = 1

\* The terminal table has been returned with three references on its file.
C10_Witness ==
  /\ pc = "fdReturned"
  /\ TTY
  /\ files[ttyFile].ref = 3
  /\ fdmRef = 1

====
